---- MODULE Spec2Model ----
(***************************************************************************)
(* Model of graphql-reflect-go: the reflective schema generation           *)
(* (createGraphQlFieldHierarchy), the field resolvers it binds (the        *)
(* "where" scan, the "skip"/"limit" window, computed fields) and the query *)
(* entry point (QueryStructViaGraphql / executeQuery).                     *)
(*                                                                         *)
(* Four specifications share the variables:                                *)
(*   Spec       the schema build over a family of record types             *)
(*   SpecWhere  the Resolve closure, "where" branch                        *)
(*   SpecPage   the Resolve closure, "skip"/"limit" branch                 *)
(*   SpecQuery  QueryStructViaGraphql over records with a computed field   *)
(***************************************************************************)
EXTENDS Integers, Sequences, FiniteSets, TLC

VARIABLES
    defs,       \* the record types of the program: type name -> visible fields
    pc,         \* position of the schema build: "start", "built", "overflow", "assembled"
    typesMap,   \* typesMap: type name -> Pair(First: output, Second: fields)
    filterMap,  \* filterMap: struct field name -> argument config of "where"
    objects,    \* the graphql.NewObject calls so far, in order: [name, fields]
    occ,        \* the (output, fields) pairs returned for record types, in order
    rootOut,    \* the output type returned for the root type
    rootFields, \* the root query object's fields (QueryStructViaGraphql)
    wColl,      \* "where": the source collection r
    wFilter,    \* "where": the argument p.Args["where"]
    wRes,       \* "where": the resolver's return
    wPc,        \* "where": "ready", "done"
    pColl,      \* "skip"/"limit": the source collection r
    pArgs,      \* "skip"/"limit": p.Args
    pRes,       \* "skip"/"limit": the resolver's return
    pPc,        \* "skip"/"limit": "ready", "done"
    qSource,    \* query: the root value o (a collection of records)
    qSel,       \* query: the fields the query text selects
    qResult,    \* query: the *graphql.Result of graphql.Do
    qRet,       \* query: what QueryStructViaGraphql returns
    qPc         \* query: "ready", "executed", "checked", "done", "failed"

buildVars == <<defs, pc, typesMap, filterMap, objects, occ, rootOut, rootFields>>
whereVars == <<wColl, wFilter, wRes, wPc>>
pageVars  == <<pColl, pArgs, pRes, pPc>>
queryVars == <<qSource, qSel, qResult, qRet, qPc>>
vars == <<buildVars, whereVars, pageVars, queryVars>>

----------------------------------------------------------------------------
(* Bounds *)

\* Go's call stack, in frames of createGraphQlFieldHierarchy: a deeper
\* recursion ends the process with a stack overflow.
MaxDepth == 8

----------------------------------------------------------------------------
(* Maps *)

EmptyMap == [x \in {} |-> x]

Put(m, k, v) == [x \in DOMAIN m \cup {k} |-> IF x = k THEN v ELSE m[x]]

----------------------------------------------------------------------------
(* reflect.Type *)

Basic(k)    == [k |-> k, name |-> k, sub |-> <<>>]
SliceOf(e)  == [k |-> "slice", name |-> "", sub |-> <<e>>]
FuncOf(o)   == [k |-> "func", name |-> "", sub |-> <<o>>]
StructT(n)  == [k |-> "struct", name |-> n, sub |-> <<>>]
PtrT        == [k |-> "ptr", name |-> "", sub |-> <<>>]
InterfaceT  == [k |-> "interface", name |-> "", sub |-> <<>>]
typeTime    == StructT("Time")

Kind(t)     == t.k
TypeName(t) == t.name
Elem(t)     == t.sub[1]
Out0(t)     == t.sub[1]

StructField(n, t) == [name |-> n, type |-> t]

\* strings.ToLower on the member names of the program
ToLower(s) ==
    CASE s = "Items"   -> "items"
      [] s = "Pet"     -> "pet"
      [] s = "Pal"     -> "pal"
      [] s = "Tags"    -> "tags"
      [] s = "Enemies" -> "enemies"
      [] s = "Any"     -> "any"
      [] s = "Ptrs"    -> "ptrs"
      [] s = "Name"    -> "name"
      [] s = "NAME"    -> "name"
      [] s = "Kids"    -> "kids"
      [] s = "Raw"     -> "raw"
      [] s = "Friend"  -> "friend"
      [] s = "Pack"    -> "pack"
      [] s = "Owner"   -> "owner"
      [] s = "Age"     -> "age"
      [] s = "AGE"     -> "age"
      [] s = "Born"    -> "born"
      [] s = "Label"   -> "label"
      [] s = "Price"   -> "price"
      [] s = "Maker"   -> "maker"
      [] OTHER         -> s

----------------------------------------------------------------------------
(* graphql.Output *)

NilOut        == [tag |-> "Nil", name |-> "", id |-> 0, of |-> <<>>]
Scalar(n)     == [tag |-> "Scalar", name |-> n, id |-> 0, of |-> <<>>]
graphqlString  == Scalar("String")
graphqlInt     == Scalar("Int")
graphqlFloat   == Scalar("Float")
graphqlBoolean == Scalar("Boolean")
NewList(o)    == [tag |-> "List", name |-> "", id |-> 0, of |-> <<o>>]
NewObject(n, i) == [tag |-> "Object", name |-> n, id |-> i, of |-> <<>>]

ArgumentConfig(t)  == [type |-> t, name |-> "", fields |-> EmptyMap]
NewInputObject(n, f) == [type |-> "InputObject", name |-> n, fields |-> f]

IntKinds == {"int", "uint", "int8", "uint8", "int16", "uint16", "int32", "uint32",
             "int64", "uint64"}
FloatKinds == {"float32", "float64"}

getBasicOutput(t) ==
    CASE Kind(t) = "string"    -> graphqlString
      [] Kind(t) \in IntKinds  -> graphqlFloat
      [] Kind(t) = "bool"      -> graphqlBoolean
      [] Kind(t) \in FloatKinds -> graphqlFloat
      [] OTHER                 -> NilOut

----------------------------------------------------------------------------
(* createGraphQlFieldHierarchy *)

VisibleFields(t) == defs[TypeName(t)]

\* knownType, ok := typesMap[t.Name()]
KnownTypeMiss(tm, t) == FALSE
KnownType(tm, t) == TypeName(t) \in DOMAIN tm

\* "Register all filter arguments": one argument per scalar-typed subfield
SubfieldArgsAll(subfields) ==
    [k \in DOMAIN subfields |-> ArgumentConfig(subfields[k].type.name)]
SubfieldArgs(subfields) ==
    [k \in {x \in DOMAIN subfields : subfields[x].type \in {graphqlString, graphqlInt, graphqlBoolean, graphqlFloat}}
        |-> ArgumentConfig(subfields[k].type.name)]

\* the InputObjectConfigFieldMap built from the element type's visible fields
RECURSIVE InputFields(_, _, _)
InputFields(vs, i, acc) ==
    IF i > Len(vs) THEN acc
    ELSE LET t == getBasicOutput(vs[i].type)
         IN IF t # NilOut
            THEN InputFields(vs, i + 1, Put(acc, ToLower(vs[i].name), t.name))
            ELSE InputFields(vs, i + 1, acc)

\* the key under which the "where" argument of a struct field is memoized
FilterKey(structField) == structField.name

\* the arguments of one struct field and the filterMap afterwards
FieldArgs(structField, subfields, fm) ==
    LET args == SubfieldArgs(subfields)
        k    == Kind(structField.type)
    IN IF k \in {"slice", "array"}
       THEN IF Kind(Elem(structField.type)) = "struct"
            THEN LET key == FilterKey(structField)
                     argConfig ==
                        IF key \in DOMAIN fm THEN fm[key]
                        ELSE NewInputObject(ToLower(structField.name),
                                 InputFields(VisibleFields(Elem(structField.type)), 1, EmptyMap))
                 IN [args |-> Put(args, "where", argConfig),
                     filterMap |-> Put(fm, key, argConfig)]
            ELSE [args |-> Put(Put(args, "skip", ArgumentConfig("Int")),
                               "limit", ArgumentConfig("Int")),
                  filterMap |-> fm]
       ELSE [args |-> args, filterMap |-> fm]

\* fields[strings.ToLower(structFieldName)] = &graphql.Field{...}
RegisterFirst(fields, structField, out, args) ==
    IF ToLower(structField.name) \in DOMAIN fields THEN fields
    ELSE Put(fields, ToLower(structField.name),
             [name |-> structField.name, type |-> out, args |-> args,
              kind |-> Kind(structField.type)])
RegisterField(fields, structField, out, args) ==
    Put(fields, ToLower(structField.name),
        [name |-> structField.name, type |-> out, args |-> args,
         kind |-> Kind(structField.type)])

\* "Skip unsupported types": if structFieldType == nil { continue }
SkipUnsupported(out) == out = NilOut

Overflow(st) == [out |-> NilOut, fields |-> EmptyMap, st |-> [st EXCEPT !.overflow = TRUE]]

RECURSIVE createGraphQlFieldHierarchy(_, _, _)
RECURSIVE structFields(_, _, _, _, _)

\* the loop over reflect.VisibleFields(t), from the i-th field on
structFields(t, i, fields, st, d) ==
    IF st.overflow \/ i > Len(VisibleFields(t)) THEN [fields |-> fields, st |-> st]
    ELSE LET structField == VisibleFields(t)[i]
             r == createGraphQlFieldHierarchy(structField.type, st, d + 1)
         IN IF r.st.overflow THEN [fields |-> fields, st |-> r.st]
            ELSE IF SkipUnsupported(r.out) THEN structFields(t, i + 1, fields, r.st, d)
            ELSE LET a == FieldArgs(structField, r.fields, r.st.filterMap)
                 IN structFields(t, i + 1,
                        RegisterField(fields, structField, r.out, a.args),
                        [r.st EXCEPT !.filterMap = a.filterMap], d)

\* st = [typesMap, filterMap, objects, occ, overflow]; d is the depth of the call
createGraphQlFieldHierarchy(t, st, d) ==
    IF st.overflow \/ d > MaxDepth THEN Overflow(st)
    ELSE IF KnownType(st.typesMap, t)
    THEN LET knownType == st.typesMap[TypeName(t)]
         IN [out |-> knownType.First, fields |-> knownType.Second,
             st |-> [st EXCEPT !.occ = Append(@, [name |-> TypeName(t),
                                                  id |-> knownType.First.id,
                                                  fields |-> knownType.Second])]]
    ELSE IF t = typeTime THEN [out |-> graphqlFloat, fields |-> EmptyMap, st |-> st]
    ELSE CASE Kind(t) = "func" ->
                IF Kind(Out0(t)) = "interface"
                THEN [out |-> NilOut, fields |-> EmptyMap, st |-> st]
                ELSE createGraphQlFieldHierarchy(Out0(t), st, d + 1)
           [] Kind(t) = "struct" ->
                LET r == structFields(t, 1, EmptyMap, st, d)
                    o == NewObject(TypeName(t), Len(r.st.objects) + 1)
                IN IF r.st.overflow THEN Overflow(r.st)
                   ELSE [out |-> o, fields |-> r.fields,
                         st |-> [r.st EXCEPT
                            !.objects = Append(@, [name |-> TypeName(t), fields |-> r.fields]),
                            !.typesMap = Put(@, TypeName(t), [First |-> o, Second |-> r.fields]),
                            !.occ = Append(@, [name |-> TypeName(t), id |-> o.id,
                                               fields |-> r.fields])]]
           [] Kind(t) \in {"array", "slice"} ->
                LET r == createGraphQlFieldHierarchy(Elem(t), st, d + 1)
                IN IF r.st.overflow THEN Overflow(r.st)
                   ELSE [out |-> NewList(r.out), fields |-> r.fields, st |-> r.st]
           [] OTHER -> [out |-> getBasicOutput(t), fields |-> EmptyMap, st |-> st]

----------------------------------------------------------------------------
(* The record types the build runs over *)

Cat == <<StructField("Name", Basic("string")),
         StructField("Age", Basic("int16")),
         StructField("Born", typeTime)>>

Toy == <<StructField("Label", Basic("string")),
         StructField("Price", Basic("uint")),
         StructField("Raw", PtrT),
         StructField("Maker", StructT("Cat"))>>

DogMembers ==
    { StructField("Items", SliceOf(StructT("Toy"))),
      StructField("Items", SliceOf(StructT("Cat"))),
      StructField("Friend", StructT("Cat")),
      StructField("Name", Basic("string")),
      StructField("NAME", Basic("uint")),
      StructField("Pack", SliceOf(StructT("Dog"))),
      StructField("Owner", FuncOf(StructT("Root"))),
      StructField("Age", Basic("int16")),
      StructField("Born", typeTime) }

RootMembers ==
    { StructField("Items", SliceOf(StructT("Cat"))),
      StructField("Items", SliceOf(StructT("Dog"))),
      StructField("Pet", StructT("Dog")),
      StructField("Pal", StructT("Cat")),
      StructField("Tags", SliceOf(Basic("string"))),
      StructField("Enemies", FuncOf(SliceOf(StructT("Cat")))),
      StructField("Any", FuncOf(InterfaceT)),
      StructField("Ptrs", SliceOf(PtrT)),
      StructField("Name", Basic("string")),
      StructField("NAME", Basic("int")),
      StructField("NAME", PtrT),
      StructField("Kids", SliceOf(StructT("Root"))),
      StructField("Raw", PtrT) }

\* a record type's fields have distinct names
Pairs(S) == { <<a, b>> : a \in S, b \in S } \ { p \in S \X S : p[1].name = p[2].name }

Programs ==
    { [n \in {"Root", "Dog", "Cat", "Toy"} |->
          CASE n = "Root" -> r [] n = "Dog" -> d [] n = "Cat" -> Cat [] OTHER -> Toy]
      : r \in Pairs(RootMembers), d \in Pairs(DogMembers) }

RootType == StructT("Root")

----------------------------------------------------------------------------
(* Schema build *)

BuildIdle ==
    /\ defs = [n \in {"Root", "Dog", "Cat", "Toy"} |-> <<>>]
    /\ pc = "idle"
    /\ typesMap = EmptyMap /\ filterMap = EmptyMap
    /\ objects = <<>> /\ occ = <<>>
    /\ rootOut = NilOut /\ rootFields = EmptyMap

BuildInit ==
    /\ defs \in Programs
    /\ pc = "start"
    /\ typesMap = EmptyMap /\ filterMap = EmptyMap
    /\ objects = <<>> /\ occ = <<>>
    /\ rootOut = NilOut /\ rootFields = EmptyMap

\* typ, _ := createGraphQlFieldHierarchy(reflect.TypeOf(o), nil, nil)
BuildSchema ==
    /\ pc = "start"
    /\ LET r == createGraphQlFieldHierarchy(RootType,
                    [typesMap |-> EmptyMap, filterMap |-> EmptyMap,
                     objects |-> <<>>, occ |-> <<>>, overflow |-> FALSE], 1)
       IN /\ pc' = IF r.st.overflow THEN "overflow" ELSE "built"
          /\ typesMap' = r.st.typesMap
          /\ filterMap' = r.st.filterMap
          /\ objects' = r.st.objects
          /\ occ' = r.st.occ
          /\ rootOut' = r.out
    /\ UNCHANGED <<defs, rootFields>>

\* fields[rootField] = &graphql.Field{Type: typ, Resolve: ...}
Assemble ==
    /\ pc = "built"
    /\ pc' = "assembled"
    /\ rootFields' = Put(EmptyMap, "root",
                        [name |-> "root", type |-> rootOut, args |-> EmptyMap, kind |-> ""])
    /\ UNCHANGED <<defs, typesMap, filterMap, objects, occ, rootOut>>

----------------------------------------------------------------------------
(* Resolve, "where" branch *)

\* longest source collection of the "where" and "skip"/"limit" resolvers
MaxLen == 2
\* largest member value and filter value
MaxVal == 2

\* a reflect.Value of a scalar kind; Invalid is the zero Value
Num(k, n)  == [k |-> k, n |-> n, s |-> ""]
Str(s)     == [k |-> "string", n |-> 0, s |-> s]
Invalid    == [k |-> "invalid", n |-> 0, s |-> ""]

\* element.FieldByNameFunc(func(s) bool { return strings.ToLower(s) == fieldName }):
\* the zero Value when no field or more than one field satisfies the match
FieldByNameFunc(element, fieldName) ==
    LET hits == {m \in DOMAIN element : ToLower(m) = fieldName}
    IN IF Cardinality(hits) = 1 THEN element[CHOOSE m \in hits : TRUE] ELSE Invalid

\* the kinds the float64 case of the comparison converts
ComparedKinds == {"float64", "int", "int8", "int32", "int64"}

\* var match bool ... switch filterValue.(type): "panic" is val.Interface()
\* on the zero Value
Match(filterValue, val) ==
    IF val = Invalid THEN "panic"
    ELSE IF filterValue.k = "float64"
         THEN IF val.k \in ComparedKinds /\ filterValue.n = val.n THEN "match" ELSE "none"
         ELSE IF filterValue = val THEN "match" ELSE "none"

\* for fieldName, filterValue := range filter, in the iteration order given
RECURSIVE RangeFilter(_, _, _, _)
RangeFilter(element, filter, order, k) ==
    IF k > Len(order) THEN "none"
    ELSE LET m == Match(filter[order[k]], FieldByNameFunc(element, order[k]))
         IN IF m = "none" THEN RangeFilter(element, filter, order, k + 1) ELSE m

\* the iteration orders of a Go map
Orders(S) == {o \in [1..Cardinality(S) -> S] : \A a, b \in DOMAIN o : a # b => o[a] # o[b]}

\* r.Slice(i, j).Interface(), nil
Returned(coll, i, j) == [status |-> "ok", val |-> SubSeq(coll, i + 1, j), lo |-> i, hi |-> j]
Panicked == [status |-> "panic", val |-> <<>>, lo |-> 0, hi |-> 0]
NotResolved == [status |-> "none", val |-> <<>>, lo |-> 0, hi |-> 0]

\* for i := 0; i < j; i++ { ... }: orders[i+1] is the map order met at element i
RECURSIVE Scan(_, _, _, _)
Scan(coll, filter, orders, i) ==
    IF i >= Len(coll) THEN Returned(coll, 0, 0)
    ELSE LET m == RangeFilter(coll[i + 1], filter, orders[i + 1], 1)
         IN CASE m = "match" -> Returned(coll, i, i + 1)
              [] m = "panic" -> Panicked
              [] OTHER       -> Scan(coll, filter, orders, i + 1)

NumericKinds == IntKinds \cup FloatKinds

Elements(kind) ==
    { [m \in {"Name", "Age"} |-> IF m = "Name" THEN Str(s) ELSE Num(kind, n)]
      : s \in {"a", "b"}, n \in 1..MaxVal }

Collections(kind) == UNION { [1..n -> Elements(kind)] : n \in 0..MaxLen }

\* an instance of a filter shape: "name" and "age" are members of the element
\* type, "price" is a member of another record type's filter shape
FilterValues(f) ==
    CASE f = "name" -> {Str("a"), Str("b")}
      [] f = "age"  -> {Num("float64", n) : n \in 1..MaxVal}
      [] OTHER      -> {Num("float64", 1)}

Filters ==
    UNION { { g \in [S -> UNION {FilterValues(f) : f \in S}] : \A f \in S : g[f] \in FilterValues(f) }
            : S \in (SUBSET {"name", "age", "price"}) \ {{}} }

WhereIdle ==
    /\ wColl = <<>> /\ wFilter = EmptyMap /\ wRes = NotResolved /\ wPc = "idle"

WhereInit ==
    /\ \E kind \in NumericKinds : wColl \in Collections(kind)
    /\ wFilter \in Filters
    /\ wRes = NotResolved
    /\ wPc = "ready"

\* Resolve with p.Args["where"] set
ResolveWhere ==
    /\ wPc = "ready"
    /\ \E orders \in [1..Len(wColl) -> Orders(DOMAIN wFilter)] :
          wRes' = Scan(wColl, wFilter, orders, 0)
    /\ wPc' = "done"
    /\ UNCHANGED <<wColl, wFilter>>

----------------------------------------------------------------------------
(* Resolve, "skip"/"limit" branch *)

\* largest "skip" and "limit"
MaxArg == 4

Min(x, y) == IF x < y THEN x ELSE y

\* the window start after "skip"
SkipStart(args, j) == IF "skip" \in DOMAIN args THEN Min(args["skip"], j - 1) ELSE 0

\* the window end after "limit"
LimitEnd(args, i, j) == IF "limit" \in DOMAIN args THEN Min(i + args["limit"], j) ELSE j

\* r.Slice(i, j): panics unless 0 <= i <= j <= cap
Slice(coll, i, j) ==
    IF i < 0 \/ j < i \/ j > Len(coll) THEN Panicked ELSE Returned(coll, i, j)

PageArgs ==
    UNION { [S -> 0..MaxArg] : S \in SUBSET {"skip", "limit"} }

PageIdle ==
    /\ pColl = <<>> /\ pArgs = EmptyMap /\ pRes = NotResolved /\ pPc = "idle"

PageInit ==
    /\ \E n \in 0..(MaxLen + 2) : pColl = [x \in 1..n |-> 10 * x]
    /\ pArgs \in PageArgs
    /\ pRes = NotResolved
    /\ pPc = "ready"

\* Resolve without p.Args["where"]
ResolvePage ==
    /\ pPc = "ready"
    /\ LET i == SkipStart(pArgs, Len(pColl))
           j == LimitEnd(pArgs, i, Len(pColl))
       IN pRes' = Slice(pColl, i, j)
    /\ pPc' = "done"
    /\ UNCHANGED <<pColl, pArgs>>

----------------------------------------------------------------------------
(* Resolve of scalar and computed fields, executeQuery, QueryStructViaGraphql *)

\* longest root collection of a query
MaxDogs == 2

NoError == "nil"

\* a computed field is nil, returns a value, or returns an error
Funcs == {"nil", "ok", "errA", "errB"}

Dogs == [Name : {"Bello"}, Age : 1..MaxVal, Enemies : Funcs]

\* the Resolve closure of one field on one source record
Resolve(field, source) ==
    CASE field = "enemies" ->
            IF source.Enemies = "nil" THEN [value |-> "null", err |-> NoError]
            ELSE IF source.Enemies = "ok" THEN [value |-> "list", err |-> NoError]
            ELSE [value |-> "list", err |-> source.Enemies]
      [] field = "age"  -> [value |-> "number", err |-> NoError]
      [] OTHER          -> [value |-> "string", err |-> NoError]

QueryFields == <<"name", "age", "enemies">>

\* graphql.Do: every selected field of every element is resolved; a resolver
\* error leaves null at the field and is appended to Errors
RECURSIVE DoErrors(_, _, _, _)
DoErrors(source, sel, i, k) ==
    IF i > Len(source) THEN <<>>
    ELSE IF k > Len(QueryFields) THEN DoErrors(source, sel, i + 1, 1)
    ELSE LET r == Resolve(QueryFields[k], source[i])
             rest == DoErrors(source, sel, i, k + 1)
         IN IF QueryFields[k] \in sel /\ r.err # NoError THEN <<r.err>> \o rest ELSE rest

DoData(source, sel) ==
    [i \in 1..Len(source) |->
        [f \in sel |-> LET r == Resolve(f, source[i])
                       IN IF r.err # NoError THEN "null" ELSE r.value]]

graphqlDo(source, sel) == [Data |-> DoData(source, sel), Errors |-> DoErrors(source, sel, 1, 1)]

NoResult == [Data |-> <<>>, Errors |-> <<>>]
NoReturn == [bytes |-> NoResult, err |-> NoError, set |-> FALSE]

\* if len(result.Errors) > 0
HasErrorsNever(result) == FALSE
HasErrors(result) == Len(result.Errors) > 0

QueryIdle ==
    /\ qSource = <<>> /\ qSel = {} /\ qResult = NoResult /\ qRet = NoReturn /\ qPc = "idle"

QueryInit ==
    /\ qSource \in UNION { [1..n -> Dogs] : n \in 1..MaxDogs }
    /\ qSel \in (SUBSET {"name", "age", "enemies"}) \ {{}}
    /\ qResult = NoResult
    /\ qRet = NoReturn
    /\ qPc = "ready"

\* result := graphql.Do(...)
Do ==
    /\ qPc = "ready"
    /\ qResult' = graphqlDo(qSource, qSel)
    /\ qPc' = "executed"
    /\ UNCHANGED <<qSource, qSel, qRet>>

\* executeQuery's return and "if err != nil { return nil, err }" of the caller
ExecuteQueryFails ==
    /\ qPc = "executed"
    /\ HasErrors(qResult)
    /\ qRet' = [bytes |-> NoResult, err |-> qResult.Errors[1], set |-> TRUE]
    /\ qPc' = "failed"
    /\ UNCHANGED <<qSource, qSel, qResult>>

\* executeQuery returns the result, json.MarshalIndent serializes it
MarshalResult ==
    /\ qPc = "executed"
    /\ ~HasErrors(qResult)
    /\ qRet' = [bytes |-> qResult, err |-> NoError, set |-> TRUE]
    /\ qPc' = "done"
    /\ UNCHANGED <<qSource, qSel, qResult>>

----------------------------------------------------------------------------
(* Specifications *)

Init == BuildInit /\ WhereIdle /\ PageIdle /\ QueryIdle
Next ==
    \/ BuildSchema /\ UNCHANGED <<whereVars, pageVars, queryVars>>
    \/ Assemble /\ UNCHANGED <<whereVars, pageVars, queryVars>>
Spec == Init /\ [][Next]_vars

InitWhere == BuildIdle /\ WhereInit /\ PageIdle /\ QueryIdle
NextWhere == ResolveWhere /\ UNCHANGED <<buildVars, pageVars, queryVars>>
SpecWhere == InitWhere /\ [][NextWhere]_vars

InitPage == BuildIdle /\ WhereIdle /\ PageInit /\ QueryIdle
NextPage == ResolvePage /\ UNCHANGED <<buildVars, whereVars, queryVars>>
SpecPage == InitPage /\ [][NextPage]_vars

InitQuery == BuildIdle /\ WhereIdle /\ PageIdle /\ QueryInit
NextQuery ==
    \/ Do /\ UNCHANGED <<buildVars, whereVars, pageVars>>
    \/ ExecuteQueryFails /\ UNCHANGED <<buildVars, whereVars, pageVars>>
    \/ MarshalResult /\ UNCHANGED <<buildVars, whereVars, pageVars>>
SpecQuery == InitQuery /\ [][NextQuery]_vars

----------------------------------------------------------------------------
(* Properties of the schema build *)

Built == pc \in {"built", "assembled"}

\* the registered fields of all objects: [obj, key, f]
Registered ==
    UNION { { [obj |-> objects[i].name, key |-> k, f |-> objects[i].fields[k]]
              : k \in DOMAIN objects[i].fields } : i \in DOMAIN objects }

\* the struct field a registered field was made from
MemberOf(reg) ==
    LET vs == defs[reg.obj]
    IN vs[CHOOSE x \in DOMAIN vs : vs[x].name = reg.f.name]

\* the record type under collections and computed fields, "" if none
RECURSIVE UnderlyingRecord(_)
UnderlyingRecord(t) ==
    CASE Kind(t) \in {"slice", "array", "func"} -> UnderlyingRecord(t.sub[1])
      [] Kind(t) = "struct" /\ t # typeTime -> TypeName(t)
      [] OTHER -> ""

\* the arguments the field's shape calls for
ShapeArgNames(t) ==
    IF Kind(t) \in {"slice", "array"}
    THEN IF Kind(Elem(t)) = "struct" THEN {"where"} ELSE {"skip", "limit"}
    ELSE {}

\* the scalar-typed entries of the field map registered for the record type under t
ScalarSubfieldNames(t) ==
    LET n == UnderlyingRecord(t)
    IN IF n \in DOMAIN typesMap
       THEN {k \in DOMAIN typesMap[n].Second : typesMap[n].Second[k].type.tag = "Scalar"}
       ELSE {}

\* C1 (as claimed): after the build, a field's argument set is determined by
\* its shape alone: "where" for a collection of records, "skip" and "limit"
\* for a collection of scalars, no argument for any other field.
C1_ArgsByShape ==
    Built => \A reg \in Registered :
                DOMAIN reg.f.args = ShapeArgNames(MemberOf(reg).type)

\* C1 (amended): after the build, a field's argument set is the arguments of
\* its shape ("where" for a collection of records, "skip" and "limit" for any
\* other collection) together with one argument per scalar-typed field of the
\* record type under the field (nested record, collection element, computed
\* field's return type).
C1_ArgsByShapeAndSubfields ==
    Built => \A reg \in Registered :
                DOMAIN reg.f.args = ShapeArgNames(MemberOf(reg).type)
                                    \cup ScalarSubfieldNames(MemberOf(reg).type)

\* a collection-of-record field carries "where" beside subfield arguments and
\* a nested record field carries subfield arguments
C1_Witness ==
    /\ Built
    /\ \E reg \in Registered :
          /\ "where" \in DOMAIN reg.f.args
          /\ Cardinality(DOMAIN reg.f.args) > 1
    /\ \E reg \in Registered :
          /\ Kind(MemberOf(reg).type) = "struct"
          /\ DOMAIN reg.f.args # {}

\* the output under the lists of an output
RECURSIVE UnderList(_)
UnderList(o) == IF o.tag = "List" THEN UnderList(o.of[1]) ELSE o

\* C5: at every point of one build at most one Object has been constructed
\* per type name, and every occurrence of a named record type (direct member,
\* collection element, computed field's return type) resolves to the same
\* Object and the same field map.
C5_OneObjectPerName ==
    /\ \A i, j \in DOMAIN objects : objects[i].name = objects[j].name => i = j
    /\ \A a, b \in DOMAIN occ :
          occ[a].name = occ[b].name => occ[a].id = occ[b].id /\ occ[a].fields = occ[b].fields
    /\ \A reg \in Registered :
          LET o == UnderList(reg.f.type)
          IN o.tag = "Object" =>
                /\ o.name \in DOMAIN typesMap
                /\ typesMap[o.name].First = o
                /\ typesMap[o.name].Second = objects[o.id].fields

\* a record type met a second time in a finished build
C5_Witness ==
    /\ Built
    /\ \E a, b \in DOMAIN occ : a < b /\ occ[a].name = occ[b].name
    /\ \E r1, r2 \in Registered :
          /\ r1 # r2
          /\ UnderList(r1.f.type).tag = "Object"
          /\ UnderList(r1.f.type) = UnderList(r2.f.type)

\* C6: the build terminates for every finite type graph, the self-referential
\* and mutually recursive ones included.
C6_Terminates == pc # "overflow"

\* an output with no absent part
RECURSIVE FullyDefined(_)
FullyDefined(o) ==
    CASE o.tag = "List" -> FullyDefined(o.of[1])
      [] o.tag = "Nil"  -> FALSE
      [] OTHER          -> TRUE

\* C7: every registered field has a fully defined output type: no registered
\* field is a List wrapping an absent element descriptor.
C7_FieldsFullyDefined ==
    \A reg \in Registered : FullyDefined(reg.f.type)

\* C8: the member names of a "where" filter shape are exactly the lower-cased
\* names of the scalar-typed members of the field's own element type.
C8_FilterOfOwnElement ==
    Built => \A reg \in Registered :
                "where" \in DOMAIN reg.f.args =>
                    LET vs == VisibleFields(Elem(MemberOf(reg).type))
                    IN DOMAIN reg.f.args["where"].fields =
                          {ToLower(vs[x].name) : x \in {y \in DOMAIN vs :
                                                    getBasicOutput(vs[y].type) # NilOut}}

\* a struct field whose type has an output (it is not skipped)
RECURSIVE Usable(_)
Usable(t) ==
    CASE Kind(t) = "func" -> Kind(Out0(t)) # "interface" /\ Usable(Out0(t))
      [] Kind(t) \in {"struct", "slice", "array"} -> TRUE
      [] OTHER -> getBasicOutput(t) # NilOut

\* the positions of the kept struct fields of a record type that lower-case to key
Colliding(obj, key) ==
    {x \in DOMAIN defs[obj] : ToLower(defs[obj][x].name) = key /\ Usable(defs[obj][x].type)}

First(S) == CHOOSE x \in S : \A y \in S : x <= y
Last(S)  == CHOOSE x \in S : \A y \in S : y <= x

\* C10 (as claimed): when members of one record type lower-case to the same
\* name, the field map holds the field of the member processed first.
C10_FirstWriterWins ==
    \A reg \in Registered :
        LET m == defs[reg.obj][First(Colliding(reg.obj, reg.key))]
        IN reg.f.name = m.name /\ reg.f.kind = Kind(m.type)

\* C10 (amended): when members of one record type lower-case to the same
\* name, the field map holds the field of the member processed last among
\* those that are not skipped: each later one replaces the earlier.
C10_LastWriterWins ==
    \A reg \in Registered :
        LET m == defs[reg.obj][Last(Colliding(reg.obj, reg.key))]
        IN reg.f.name = m.name /\ reg.f.kind = Kind(m.type)

\* two kept members of one record type share a lower-cased name
C10_Witness ==
    /\ Built
    /\ \E reg \in Registered : Cardinality(Colliding(reg.obj, reg.key)) > 1

----------------------------------------------------------------------------
(* Properties of the "where" resolver *)

\* numeric-aware equality of a filter value and a member value
MathEqual(filterValue, val) ==
    /\ val # Invalid
    /\ IF filterValue.k = "float64"
       THEN val.k \in NumericKinds /\ val.n = filterValue.n
       ELSE filterValue = val

\* the element matches at least one filter member
MatchesSome(element, filter) ==
    \E f \in DOMAIN filter : MathEqual(filter[f], FieldByNameFunc(element, f))

\* C2: the result of "where" has at most one element; it is the lowest-index
\* element matching at least one filter member, whatever the iteration order
\* of the filter members; it is empty, with no error, if no element matches.
C2_FirstMatchingElement ==
    wPc = "done" =>
        LET hits == {i \in 0..(Len(wColl) - 1) : MatchesSome(wColl[i + 1], wFilter)}
        IN /\ wRes.status = "ok"
           /\ Len(wRes.val) <= 1
           /\ IF hits = {} THEN wRes = Returned(wColl, 0, 0)
              ELSE wRes = Returned(wColl, First(hits), First(hits) + 1)

\* C9: a numeric filter value matches a member of any numeric kind the filter
\* shape admits whenever the two are mathematically equal: a filter on "age"
\* alone that equals the first element's Age returns the first element.
C9_NumericEquality ==
    (/\ wPc = "done"
     /\ Len(wColl) > 0
     /\ DOMAIN wFilter = {"age"}
     /\ getBasicOutput(Basic(wColl[1]["Age"].k)) = graphqlFloat
     /\ wFilter["age"].n = wColl[1]["Age"].n)
    => wRes = Returned(wColl, 0, 1)

----------------------------------------------------------------------------
(* Properties of the "skip"/"limit" resolver *)

\* C3: for any length n >= 0 and non-negative "skip"/"limit" the resolver
\* returns the elements at [start, end), start = min(skip, n-1) or 0,
\* end = min(start + limit, n) or n, with 0 <= start <= end <= n.
C3_Window ==
    pPc = "done" =>
        LET n     == Len(pColl)
            start == IF "skip" \in DOMAIN pArgs THEN Min(pArgs["skip"], n - 1) ELSE 0
            end   == IF "limit" \in DOMAIN pArgs THEN Min(start + pArgs["limit"], n) ELSE n
        IN /\ 0 <= start /\ start <= end /\ end <= n
           /\ pRes.status = "ok"
           /\ pRes.val = [x \in 1..(end - start) |-> pColl[start + x]]

----------------------------------------------------------------------------
(* Properties of the query call *)

\* the positions of the records whose selected computed field returns an error
ComputedErrors ==
    {i \in DOMAIN qSource : "enemies" \in qSel /\ qSource[i].Enemies \in {"errA", "errB"}}

Returns == qPc \in {"done", "failed"}

\* C4 (as claimed): when a computed field's function returns an error, the
\* query call does not fail: the error is inside the returned envelope and
\* the rest of the result tree is produced and serialized.
C4_PartialResult ==
    (Returns /\ ComputedErrors # {}) =>
        /\ qRet.err = NoError
        /\ Len(qRet.bytes.Errors) > 0
        /\ Len(qRet.bytes.Data) = Len(qSource)

\* C4 (amended): when a computed field's function returns an error, the query
\* call fails with the first error of the collaborator's error list, the
\* error that function returned, and no result tree is returned or serialized.
C4_CallFails ==
    (Returns /\ ComputedErrors # {}) =>
        /\ qPc = "failed"
        /\ qRet.err = qSource[First(ComputedErrors)].Enemies
        /\ qRet.bytes = NoResult

\* a query call that returned after two computed fields returned errors
C4_Witness ==
    /\ Returns
    /\ Cardinality(ComputedErrors) = 2
    /\ qSource[1].Enemies # qSource[2].Enemies

====
